---------------------------- MODULE Spec2Model ----------------------------
(***************************************************************************)
(* A model of binaries/aot_model_compiler.cc, the driver of the NNC        *)
(* ahead-of-time model compiler: flag parsing helpers, the pass pipeline   *)
(* of main, and the "nnc" backend preprocess hook.                         *)
(*                                                                         *)
(* Strings are sequences of one-character strings.  A shape is a record    *)
(* [known, dims]; a graph is a record [self, inputs, nodes] whose nodes    *)
(* form a chain from the first graph input.                                *)
(***************************************************************************)
EXTENDS Integers, Sequences, FiniteSets, TLC

VARIABLES
    FLAGS_model_name,     \* --model_name
    FLAGS_model_version,  \* --model_version
    FLAGS_input_dims,     \* --input_dims
    pc,                   \* position in main / preprocess
    module,               \* main: m  [loaded, training, frozen, forward]
    graph,                \* the forward graph of the (frozen) module
    example_inputs,       \* main: local
    compile_spec,         \* main: local, Dict method -> Dict
    pgraph,               \* preprocess: graph (a copy)
    sizes,                \* preprocess: sizes
    func,                 \* preprocess: func (the descriptor)
    asmCode,              \* preprocess: asmCode
    cu,                   \* preprocess: cu, the registered functions
    serialized,           \* preprocess: result of cu.serialize()
    compiled_module,      \* main: compiled_module
    files,                \* the artifacts written so far: "asm", "model"
    error,                \* "none" or the kind of the fatal error raised
    trace,                \* history: stages executed so far, in order
    rounds,               \* history: per finished round, did it change the graph
    roundStart,           \* history: the graph when the current round began
    pair                  \* two finished compilations (specification SpecPair)

vars == << FLAGS_model_name, FLAGS_model_version, FLAGS_input_dims, pc, module,
           graph, example_inputs, compile_spec, pgraph, sizes, func, asmCode,
           cu, serialized, compiled_module, files, error, trace, rounds,
           roundStart, pair >>

---------------------------------------------------------------------------
(* Bounds of the model.                                                    *)

MaxLen == 3        \* longest --input_dims string
MaxNodes == 2      \* most nodes in the forward graph
MaxInputs == 2     \* most tensor inputs of the forward graph

---------------------------------------------------------------------------
(* Strings.                                                                *)

Digits == {"2", "3"}
DimChars == Digits \cup {",", ";"}

RECURSIVE StringsUpTo(_, _)
StringsUpTo(chars, n) ==
    IF n = 0 THEN {<<>>}
    ELSE LET shorter == StringsUpTo(chars, n - 1)
         IN  shorter \cup {Append(s, c) : s \in shorter, c \in chars}

\* The first position of ch in s at or after i, or Len(s) + 1 when absent.
RECURSIVE FindFrom(_, _, _)
FindFrom(s, ch, i) ==
    IF i > Len(s) THEN Len(s) + 1
    ELSE IF s[i] = ch THEN i
    ELSE FindFrom(s, ch, i + 1)

\* One getline(ss, item, separator) from position pos (1-based).  Fails when
\* the stream is already at its end; otherwise extracts up to the separator,
\* which it consumes.
Getline(s, separator, pos) ==
    IF pos > Len(s)
    THEN [ok |-> FALSE, item |-> <<>>, next |-> pos]
    ELSE LET j == FindFrom(s, separator, pos)
         IN  [ok |-> TRUE, item |-> SubSeq(s, pos, j - 1), next |-> j + 1]

RECURSIVE SplitLoop(_, _, _, _, _)
SplitLoop(separator, s, ignore_empty, pos, pieces) ==
    LET g == Getline(s, separator, pos)
    IN  IF ~g.ok THEN pieces
        ELSE SplitLoop(separator, s, ignore_empty, g.next,
                       IF ~ignore_empty \/ g.item # <<>>
                       THEN Append(pieces, g.item)
                       ELSE pieces)

split(separator, s, ignore_empty) == SplitLoop(separator, s, ignore_empty, 1, <<>>)

DigitVal(c) == CASE c = "0" -> 0 [] c = "1" -> 1 [] c = "2" -> 2 [] c = "3" -> 3
                 [] c = "4" -> 4 [] c = "5" -> 5 [] c = "6" -> 6 [] c = "7" -> 7
                 [] c = "8" -> 8 [] c = "9" -> 9

\* c10::stoi on a string of decimal digits.
RECURSIVE stoi(_)
stoi(s) ==
    IF s = <<>> THEN 0
    ELSE 10 * stoi(SubSeq(s, 1, Len(s) - 1)) + DigitVal(s[Len(s)])

ParseDims(input_dims_str) ==
    [k \in 1..Len(input_dims_str) |-> stoi(input_dims_str[k])]

parse_input_shapes(input_dims) ==
    LET input_dims_list == split(";", input_dims, TRUE)
    IN  [k \in 1..Len(input_dims_list) |->
            ParseDims(split(",", input_dims_list[k], TRUE))]

---------------------------------------------------------------------------
(* Shapes and graphs.                                                      *)

Unknown == [known |-> FALSE, dims |-> <<>>]
Known(d) == [known |-> TRUE, dims |-> d]

\* Operators of the forward graph.  The nodes form a chain: every node
\* consumes the value of the nearest chain node before it, the first one
\* consumes graph input 1.
\*   relu     pure elementwise operator; its output has its input's shape
\*   relu_    the same, computed in place
\*   mul1     multiplication by one, a peephole pattern
\*   custom   an operator without a shape-inference rule
\*   dead     an elementwise operator off the chain whose output is unused
\*   cexpr    an expression over constants only (off the chain); its shape
\*            is known only once it has been folded
\*   const    a constant scalar (off the chain)
LoadedOps == {"relu_", "mul1", "custom", "dead", "cexpr"}
OffChain == {"dead", "cexpr", "const"}

Node(op) == [op |-> op, shape |-> Unknown]

RECURSIVE SeqsUpTo(_, _)
SeqsUpTo(S, n) ==
    IF n = 0 THEN {<<>>}
    ELSE LET shorter == SeqsUpTo(S, n - 1)
         IN  shorter \cup {Append(s, x) : s \in shorter, x \in S}

\* The forward graph of a loaded module: a self argument, nIn tensor inputs
\* and a chain of nodes, no shape known yet.
LoadedGraph(nIn, ops) ==
    [self   |-> TRUE,
     inputs |-> [k \in 1..nIn |-> Unknown],
     nodes  |-> [k \in 1..Len(ops) |-> Node(ops[k])]]

LoadedGraphs ==
    {LoadedGraph(nIn, ops) : nIn \in 0..MaxInputs, ops \in SeqsUpTo(LoadedOps, MaxNodes)}

\* Every graph input and every node output has a known shape.
AllShapesKnown(g) ==
    /\ \A k \in 1..Len(g.inputs) : g.inputs[k].known
    /\ \A k \in 1..Len(g.nodes) : g.nodes[k].shape.known

\* torch::jit::RemoveTensorMutation: in-place operators become pure ones.
Purify(n) == IF n.op = "relu_" THEN [n EXCEPT !.op = "relu"] ELSE n
RemoveTensorMutation(g) ==
    [g EXCEPT !.nodes = [k \in 1..Len(g.nodes) |-> Purify(g.nodes[k])]]

\* torch::jit::EliminateDeadCode: nodes with unused outputs are removed.
IsLive(n) == n.op # "dead"
EliminateDeadCode(g) == [g EXCEPT !.nodes = SelectSeq(g.nodes, IsLive)]

\* tensorexpr::removeUnusedSelfArgument: the frozen graph does not use self.
removeUnusedSelfArgument(g) == [g EXCEPT !.self = FALSE]

\* tensorexpr::annotateInputShapes: input k gets the sizes of example k.
annotateInputShapesOk(g, examples) ==
    ~g.self /\ Len(g.inputs) = Len(examples)
annotateInputShapes(g, examples) ==
    [g EXCEPT !.inputs = [k \in 1..Len(g.inputs) |-> Known(examples[k])]]

\* torch::jit::PropagateShapesOnGraph: one forward sweep along the chain.
\* cur is the shape of the chain value reaching the node.
RECURSIVE PropagateFrom(_, _)
PropagateFrom(nodes, cur) ==
    IF nodes = <<>> THEN <<>>
    ELSE LET n == Head(nodes)
             out == CASE n.op \in {"relu", "relu_", "mul1", "dead"} -> cur
                      [] n.op = "custom" -> Unknown
                      [] n.op = "cexpr" -> Unknown
                      [] n.op = "const" -> Known(<<>>)
         IN  <<[n EXCEPT !.shape = out]>>
             \o PropagateFrom(Tail(nodes), IF n.op \in OffChain THEN cur ELSE out)

PropagateShapesOnGraph(g) ==
    [g EXCEPT !.nodes =
        PropagateFrom(g.nodes, IF g.inputs = <<>> THEN Unknown ELSE g.inputs[1])]

\* torch::jit::PeepholeOptimize: x * 1 is replaced by x.
NotMul1(n) == n.op # "mul1"
PeepholeOptimize(g) == [g EXCEPT !.nodes = SelectSeq(g.nodes, NotMul1)]

\* torch::jit::ConstantPropagation: expressions over constants are folded.
Fold(n) == IF n.op = "cexpr" THEN [n EXCEPT !.op = "const"] ELSE n
ConstantPropagation(g) ==
    [g EXCEPT !.nodes = [k \in 1..Len(g.nodes) |-> Fold(g.nodes[k])]]

\* torch::jit::OptimizeFrozenGraph: its rewrites (conv-bn folding and the
\* like) match none of the operators above.
OptimizeFrozenGraph(g) == g

---------------------------------------------------------------------------
(* The driver's own functions.                                             *)

\* main, line 168: at::rand({1, 3, 224, 224})
ExampleInputs == << <<1, 3, 224, 224>> >>

Forward == <<"forward">>
VersionToken == <<"VERTOKEN">>

EmptyDict == [k \in {} |-> <<>>]

\* A check that only asks for some shape group; the first one is then used.
create_compile_spec_first_group(input_dims) ==
    Len(parse_input_shapes(input_dims)) >= 1

\* create_compile_spec, lines 77-81: the TORCH_CHECK.
create_compile_spec_ok(input_dims) == Len(parse_input_shapes(input_dims)) = 1

\* create_compile_spec, lines 82-84.
create_compile_spec(input_dims) ==
    LET input_shapes == parse_input_shapes(input_dims)
        method_spec == [k \in {"sizes"} |-> input_shapes[1]]
    IN  [k \in {Forward} |-> method_spec]

\* A lookup that loses the leading (batch) dimension.
get_input_sizes_without_batch(method_compile_spec, method_name) ==
    LET all == method_compile_spec[method_name]["sizes"]
    IN  SubSeq(all, 2, Len(all))

get_input_sizes_for_method(method_compile_spec, method_name) ==
    method_compile_spec[method_name]["sizes"]

\* A kernel id with the version ahead of the name.
get_nnc_kernel_id_version_first(model_name, model_version, method_name) ==
    model_version \o <<":">> \o model_name \o <<":">> \o method_name
        \o <<":">> \o VersionToken

get_nnc_kernel_id(model_name, model_version, method_name) ==
    model_name \o <<":">> \o model_version \o <<":">> \o method_name
        \o <<":">> \o VersionToken

\* mobile::nnc::aot_compile: lowers g for the given input sizes into a
\* function (the descriptor) and its assembly listing.  It cannot lower a
\* value whose shape is unknown.
aot_compile_ok(g) == AllShapesKnown(g)
aot_compile(method_name, g, input_sizes) ==
    [name          |-> method_name,
     input_sizes   |-> input_sizes,
     nnc_kernel_id |-> <<>>,
     code          |-> g]

\* detail::codegen_backend_module, after the preprocess hook has returned:
\* the lowered module, keyed by the compile spec.
codegen_backend_module(backend, processed, method_compile_spec) ==
    [backend |-> backend,
     methods |-> DOMAIN method_compile_spec,
     spec    |-> method_compile_spec,
     processed |-> processed]

---------------------------------------------------------------------------
(* The state machine of one run of the compiler.                           *)

ModelNames == {<<>>, <<"m">>}
ModelVersions == {<<"1">>}

NoPair == <<>>

Init ==
    /\ FLAGS_model_name \in ModelNames
    /\ FLAGS_model_version \in ModelVersions
    /\ FLAGS_input_dims \in StringsUpTo(DimChars, MaxLen)
    /\ pc = "load"
    /\ graph \in LoadedGraphs
    /\ module = [loaded |-> FALSE, training |-> TRUE, frozen |-> FALSE,
                 forward |-> graph]
    /\ example_inputs = <<>>
    /\ compile_spec = EmptyDict
    /\ pgraph = <<>>
    /\ sizes = <<>>
    /\ func = <<>>
    /\ asmCode = <<>>
    /\ cu = <<>>
    /\ serialized = <<>>
    /\ compiled_module = <<>>
    /\ files = {}
    /\ error = "none"
    /\ trace = <<>>
    /\ rounds = <<>>
    /\ roundStart = <<>>
    /\ pair = NoPair

\* The statement that follows each statement of main and preprocess.
StatementOrder(at) ==
    CASE at = "load"             -> "eval"
      [] at = "eval"             -> "freeze"
      [] at = "freeze"           -> "remove_mutation"
      [] at = "remove_mutation"  -> "dce"
      [] at = "dce"              -> "remove_self"
      [] at = "remove_self"      -> "annotate"
      [] at = "annotate"         -> "optimize_frozen"
      [] at = "optimize_frozen"  -> "propagate1"
      [] at = "propagate1"       -> "peephole1"
      [] at = "peephole1"        -> "constprop1"
      [] at = "constprop1"       -> "propagate2"
      [] at = "propagate2"       -> "peephole2"
      [] at = "peephole2"        -> "constprop2"
      [] at = "constprop2"       -> "compile_spec"
      [] at = "compile_spec"     -> "preprocess"
      [] at = "preprocess"       -> "aot_compile"
      [] at = "aot_compile"      -> "write_asm"
      [] at = "write_asm"        -> "kernel_id"
      [] at = "kernel_id"        -> "register"
      [] at = "register"         -> "serialize"
      [] at = "serialize"        -> "package"
      [] at = "package"          -> "save"
      [] at = "save"             -> "done"

\* An optimizer that stops after its first round.
NextPcOneRound(at) ==
    IF at = "constprop1" THEN "compile_spec" ELSE StatementOrder(at)

\* Rounds that rewrite peepholes before they propagate shapes.
NextPcPeepholeFirst(at) ==
    CASE at = "optimize_frozen" -> "peephole1"
      [] at = "peephole1"       -> "propagate1"
      [] at = "propagate1"      -> "constprop1"
      [] at = "constprop1"      -> "peephole2"
      [] at = "peephole2"       -> "propagate2"
      [] at = "propagate2"      -> "constprop2"
      [] OTHER                  -> StatementOrder(at)

NextPc(at) == StatementOrder(at)

\* A statement ran to its end: control moves on, the stage is recorded.
Step(at, stage) ==
    /\ pc = at
    /\ pc' = NextPc(at)
    /\ trace' = Append(trace, stage)
    /\ error' = error

\* A statement raised: the exception leaves main, the process exits.
Raise(at, stage, kind) ==
    /\ pc = at
    /\ pc' = "failed"
    /\ trace' = Append(trace, stage)
    /\ error' = kind

flagVars == << FLAGS_model_name, FLAGS_model_version, FLAGS_input_dims >>
preVars == << pgraph, sizes, func, asmCode, cu, serialized >>
histVars == << rounds, roundStart, pair >>

\* line 164: torch::jit::load
Load ==
    /\ Step("load", "load")
    /\ module' = [module EXCEPT !.loaded = TRUE]
    /\ UNCHANGED << flagVars, graph, example_inputs, compile_spec, preVars,
                    compiled_module, files, histVars >>

\* line 165: m.eval()
Eval ==
    /\ Step("eval", "eval")
    /\ module' = [module EXCEPT !.training = FALSE]
    /\ UNCHANGED << flagVars, graph, example_inputs, compile_spec, preVars,
                    compiled_module, files, histVars >>

\* lines 166-168: freeze_module works on a clone of m and raises on state it
\* cannot resolve; graph aliases the forward graph of frozen_m, so the passes
\* that follow rewrite the frozen module's graph and leave m's alone.
Freeze ==
    /\ \/ /\ Step("freeze", "freeze")
          /\ module' = [module EXCEPT !.frozen = TRUE]
          /\ example_inputs' = ExampleInputs
       \/ /\ Raise("freeze", "freeze", "freezing")
          /\ UNCHANGED << module, example_inputs >>
    /\ UNCHANGED << flagVars, graph, compile_spec, preVars,
                    compiled_module, files, histVars >>

\* A pass that rewrites the graph in place.
Pass(at, stage, rewritten) ==
    /\ Step(at, stage)
    /\ graph' = rewritten
    /\ UNCHANGED << flagVars, module, example_inputs, compile_spec, preVars,
                    compiled_module, files, pair >>

\* line 170
RemoveMutation ==
    Pass("remove_mutation", "remove_mutation", RemoveTensorMutation(graph))
        /\ UNCHANGED << rounds, roundStart >>

\* line 171
DeadCode ==
    Pass("dce", "dce", EliminateDeadCode(graph)) /\ UNCHANGED << rounds, roundStart >>

\* line 172
RemoveSelf ==
    Pass("remove_self", "remove_self", removeUnusedSelfArgument(graph))
        /\ UNCHANGED << rounds, roundStart >>

\* line 174: the shapes come from example_inputs.
Annotate ==
    /\ pc = "annotate"
    /\ \/ /\ annotateInputShapesOk(graph, example_inputs)
          /\ Step("annotate", "annotate")
          /\ graph' = annotateInputShapes(graph, example_inputs)
       \/ /\ ~annotateInputShapesOk(graph, example_inputs)
          /\ Raise("annotate", "annotate", "configuration")
          /\ graph' = graph
    /\ UNCHANGED << flagVars, module, example_inputs, compile_spec, preVars,
                    compiled_module, files, histVars >>

\* line 177
OptimizeFrozen ==
    Pass("optimize_frozen", "optimize_frozen", OptimizeFrozenGraph(graph))
        /\ UNCHANGED << rounds, roundStart >>

\* lines 178 and 181: a round begins.
Propagate(r) ==
    /\ Pass(r.propagate, "propagate", PropagateShapesOnGraph(graph))
    /\ roundStart' = <<graph>>
    /\ rounds' = rounds

\* lines 179 and 182
Peephole(r) ==
    Pass(r.peephole, "peephole", PeepholeOptimize(graph))
        /\ UNCHANGED << rounds, roundStart >>

\* lines 180 and 183: a round ends.
ConstProp(r) ==
    /\ Pass(r.constprop, "constprop", ConstantPropagation(graph))
    /\ rounds' = Append(rounds, graph' # roundStart[1])
    /\ roundStart' = <<>>

Round1 == [propagate |-> "propagate1", peephole |-> "peephole1", constprop |-> "constprop1"]
Round2 == [propagate |-> "propagate2", peephole |-> "peephole2", constprop |-> "constprop2"]

Propagate1 == Propagate(Round1)
Peephole1 == Peephole(Round1)
ConstProp1 == ConstProp(Round1)
Propagate2 == Propagate(Round2)
Peephole2 == Peephole(Round2)
ConstProp2 == ConstProp(Round2)

\* line 186: create_compile_spec
CreateCompileSpec ==
    /\ pc = "compile_spec"
    /\ \/ /\ create_compile_spec_ok(FLAGS_input_dims)
          /\ Step("compile_spec", "compile_spec")
          /\ compile_spec' = create_compile_spec(FLAGS_input_dims)
       \/ /\ ~create_compile_spec_ok(FLAGS_input_dims)
          /\ Raise("compile_spec", "compile_spec", "configuration")
          /\ compile_spec' = compile_spec
    /\ UNCHANGED << flagVars, module, graph, example_inputs, preVars,
                    compiled_module, files, histVars >>

\* lines 189-190 enter the "nnc" preprocess hook; lines 118-121: the graph
\* of the frozen module's forward method is copied, the sizes are looked up.
Preprocess ==
    /\ Step("preprocess", "preprocess")
    /\ pgraph' = <<graph>>
    /\ sizes' = get_input_sizes_for_method(compile_spec, Forward)
    /\ UNCHANGED << flagVars, module, graph, example_inputs, compile_spec, func,
                    asmCode, cu, serialized, compiled_module, files, histVars >>

\* lines 123-125: aot_compile
AotCompile ==
    /\ pc = "aot_compile"
    /\ \/ /\ aot_compile_ok(pgraph[1])
          /\ Step("aot_compile", "aot_compile")
          /\ func' = <<aot_compile(Forward, pgraph[1], sizes)>>
          /\ asmCode' = <<pgraph[1]>>
       \/ /\ ~aot_compile_ok(pgraph[1])
          /\ Raise("aot_compile", "aot_compile", "shape_incomplete")
          /\ UNCHANGED << func, asmCode >>
    /\ UNCHANGED << flagVars, module, graph, example_inputs, compile_spec, pgraph,
                    sizes, cu, serialized, compiled_module, files, histVars >>

\* line 126: write_output_assembly, lines 103-112
WriteOutputAssembly ==
    /\ Step("write_asm", "write_asm")
    /\ files' = files \cup {"asm"}
    /\ UNCHANGED << flagVars, module, graph, example_inputs, compile_spec, preVars,
                    compiled_module, histVars >>

\* line 128: func->set_nnc_kernel_id(get_nnc_kernel_id(method_name))
SetKernelId ==
    /\ Step("kernel_id", "kernel_id")
    /\ func' = <<[func[1] EXCEPT !.nnc_kernel_id =
                    get_nnc_kernel_id(FLAGS_model_name, FLAGS_model_version, Forward)]>>
    /\ UNCHANGED << flagVars, module, graph, example_inputs, compile_spec, pgraph,
                    sizes, asmCode, cu, serialized, compiled_module, files, histVars >>

\* lines 130-131: cu.register_function(std::move(func))
RegisterFunction ==
    /\ Step("register", "register")
    /\ cu' = Append(cu, func[1])
    /\ func' = <<>>
    /\ UNCHANGED << flagVars, module, graph, example_inputs, compile_spec, pgraph,
                    sizes, asmCode, serialized, compiled_module, files, histVars >>

\* line 132: return cu.serialize()
Serialize ==
    /\ Step("serialize", "serialize")
    /\ serialized' = <<cu>>
    /\ UNCHANGED << flagVars, module, graph, example_inputs, compile_spec, pgraph,
                    sizes, func, asmCode, cu, compiled_module, files, histVars >>

\* lines 189-190: codegen_backend_module returns the compiled module
Package ==
    /\ Step("package", "package")
    /\ compiled_module' = <<codegen_backend_module("nnc", serialized[1], compile_spec)>>
    /\ UNCHANGED << flagVars, module, graph, example_inputs, compile_spec, preVars,
                    files, histVars >>

\* line 191: _save_for_mobile writes the container, or raises when the file
\* cannot be written.
SaveForMobile ==
    /\ \/ /\ Step("save", "save")
          /\ files' = files \cup {"model"}
       \/ /\ Raise("save", "save", "serialization")
          /\ files' = files
    /\ UNCHANGED << flagVars, module, graph, example_inputs, compile_spec, preVars,
                    compiled_module, histVars >>

Next ==
    \/ Load
    \/ Eval
    \/ Freeze
    \/ RemoveMutation
    \/ DeadCode
    \/ RemoveSelf
    \/ Annotate
    \/ OptimizeFrozen
    \/ Propagate1
    \/ Peephole1
    \/ ConstProp1
    \/ Propagate2
    \/ Peephole2
    \/ ConstProp2
    \/ CreateCompileSpec
    \/ Preprocess
    \/ AotCompile
    \/ WriteOutputAssembly
    \/ SetKernelId
    \/ RegisterFunction
    \/ Serialize
    \/ Package
    \/ SaveForMobile

Spec == Init /\ [][Next]_vars

---------------------------------------------------------------------------
(* Two runs of the compiler side by side.  A run that succeeds leaves the  *)
(* descriptor main packages: the composition of the statements above.      *)

PairMaxLen == 1
PairMaxNodes == 1

\* main, lines 170-183, as one function of the loaded graph.
Optimized(g) ==
    LET prepared == removeUnusedSelfArgument(EliminateDeadCode(RemoveTensorMutation(g)))
        annotated == OptimizeFrozenGraph(annotateInputShapes(prepared, ExampleInputs))
        Round(x) == ConstantPropagation(PeepholeOptimize(PropagateShapesOnGraph(x)))
    IN  Round(Round(annotated))

RunSucceeds(run) ==
    /\ annotateInputShapesOk(removeUnusedSelfArgument(run.graph), ExampleInputs)
    /\ create_compile_spec_ok(run.input_dims)
    /\ aot_compile_ok(Optimized(run.graph))

RunDescriptor(run) ==
    LET spec == create_compile_spec(run.input_dims)
        f == aot_compile(Forward, Optimized(run.graph),
                         get_input_sizes_for_method(spec, Forward))
    IN  [f EXCEPT !.nnc_kernel_id =
            get_nnc_kernel_id(run.model_name, run.model_version, Forward)]

PairRuns ==
    [model_name : ModelNames, model_version : ModelVersions,
     input_dims : StringsUpTo(DimChars, PairMaxLen),
     graph : {LoadedGraph(1, ops) : ops \in SeqsUpTo(LoadedOps, PairMaxNodes)},
     state : {"ready"}, descriptor : {<<>>}]

InitPair ==
    /\ pair \in [a : PairRuns, b : PairRuns]
    /\ FLAGS_model_name = <<>>
    /\ FLAGS_model_version = <<>>
    /\ FLAGS_input_dims = <<>>
    /\ pc = "pair"
    /\ graph = LoadedGraph(0, <<>>)
    /\ module = [loaded |-> FALSE, training |-> TRUE, frozen |-> FALSE,
                 forward |-> graph]
    /\ example_inputs = <<>>
    /\ compile_spec = EmptyDict
    /\ pgraph = <<>>
    /\ sizes = <<>>
    /\ func = <<>>
    /\ asmCode = <<>>
    /\ cu = <<>>
    /\ serialized = <<>>
    /\ compiled_module = <<>>
    /\ files = {}
    /\ error = "none"
    /\ trace = <<>>
    /\ rounds = <<>>
    /\ roundStart = <<>>

Finish(run) ==
    IF RunSucceeds(run)
    THEN [run EXCEPT !.state = "done", !.descriptor = <<RunDescriptor(run)>>]
    ELSE [run EXCEPT !.state = "failed"]

nonPairVars ==
    << flagVars, pc, module, graph, example_inputs, compile_spec, preVars,
       compiled_module, files, error, trace, rounds, roundStart >>

CompileA ==
    /\ pc = "pair"
    /\ pair.a.state = "ready"
    /\ pair' = [pair EXCEPT !.a = Finish(pair.a)]
    /\ UNCHANGED nonPairVars

CompileB ==
    /\ pc = "pair"
    /\ pair.b.state = "ready"
    /\ pair' = [pair EXCEPT !.b = Finish(pair.b)]
    /\ UNCHANGED nonPairVars

NextPair == CompileA \/ CompileB

SpecPair == InitPair /\ [][NextPair]_vars

---------------------------------------------------------------------------
(* Properties.                                                             *)

Ran(stage) == \E i \in 1..Len(trace) : trace[i] = stage

IsPrefix(a, b) == Len(a) <= Len(b) /\ a = SubSeq(b, 1, Len(a))

OptimizationPasses == {"remove_mutation", "dce", "propagate", "peephole", "constprop"}

Declared == parse_input_shapes(FLAGS_input_dims)

\* C1: a run whose number of declared input-shape groups differs from the
\* number of tensor inputs of the graph, and whose module could be frozen,
\* ends in a configuration error, and no optimization pass (mutation
\* removal, dead-code elimination, shape propagation, peephole, constant
\* propagation) has run by then.
C1_MismatchFailsBeforeAnyPass ==
    (Len(Declared) # Len(graph.inputs) /\ pc \in {"done", "failed"}
        /\ error # "freezing") =>
        /\ pc = "failed"
        /\ error = "configuration"
        /\ \A stage \in OptimizationPasses : ~Ran(stage)

\* C2: once the Shape Annotator has run, the static shape of every graph
\* input is the caller-declared shape of that position.
C2_AnnotatedShapeIsDeclared ==
    (Ran("annotate") /\ error = "none" /\ Len(Declared) = Len(graph.inputs)) =>
        \A k \in 1..Len(graph.inputs) : graph.inputs[k] = Known(Declared[k])

\* C3: whenever the Kernel Compiler (aot_compile) has been invoked, every
\* value of the graph handed to it has a known static shape.
C3_LoweringOnlyWithKnownShapes ==
    Ran("aot_compile") => AllShapesKnown(pgraph[1])

\* C4: a run that ended in a fatal failure has written no artifact, neither
\* the assembly listing nor the compiled model container.
C4_FailureLeavesNoArtifact ==
    pc = "failed" => files = {}

\* C5: two successful compilations whose compiled artifacts differ (in the
\* lowered graph or in the declared input sizes) carry different kernel ids.
C5_DistinctArtifactsDistinctKernelIds ==
    (pc = "pair" /\ pair.a.state = "done" /\ pair.b.state = "done") =>
        LET da == pair.a.descriptor[1]
            db == pair.b.descriptor[1]
        IN  (da.code # db.code \/ da.input_sizes # db.input_sizes)
                => da.nnc_kernel_id # db.nnc_kernel_id

RECURSIVE JoinWith(_, _)
JoinWith(sep, parts) ==
    IF Len(parts) = 0 THEN <<>>
    ELSE IF Len(parts) = 1 THEN parts[1]
    ELSE parts[1] \o <<sep>> \o JoinWith(sep, Tail(parts))

\* The descriptor of the run, while preprocess holds it or once registered.
Descriptors == func \o cu

\* C6: the kernel id attached to the descriptor is model_name, model_version,
\* method_name and the build token joined by ':' in that order, and its
\* method-name component is the name of the method that was compiled.
C6_KernelIdIsJoinedComponents ==
    Ran("kernel_id") =>
        \A i \in 1..Len(Descriptors) :
            LET d == Descriptors[i]
            IN  /\ d.name = Forward
                /\ d.nnc_kernel_id =
                       JoinWith(":", <<FLAGS_model_name, FLAGS_model_version,
                                       d.name, VersionToken>>)

C6_Witness ==
    /\ pc = "done"
    /\ Len(cu) = 1
    /\ cu[1].nnc_kernel_id = <<"m", ":", "1", ":", "forward", ":", "VERTOKEN">>

\* C7: after a successful compilation the serialized Compilation Unit holds
\* exactly one descriptor, for method "forward", whose expected input sizes
\* are the declared shape group of the compile spec, and the Compiled Module
\* is keyed by exactly the method "forward".
C7_OneForwardDescriptor ==
    pc = "done" =>
        /\ Len(serialized) = 1
        /\ Len(serialized[1]) = 1
        /\ serialized[1][1].name = Forward
        /\ DOMAIN compile_spec = {Forward}
        /\ serialized[1][1].input_sizes = compile_spec[Forward]["sizes"]
        /\ serialized[1][1].input_sizes = Declared[1]
        /\ Len(compiled_module) = 1
        /\ compiled_module[1].methods = {Forward}
        /\ compiled_module[1].processed = serialized[1]

C7_Witness ==
    /\ pc = "done"
    /\ serialized[1][1].input_sizes = <<2, 3>>
    /\ compiled_module[1].methods = {Forward}

\* The shape groups and dimensions an --input_dims string declares, counted
\* on the string itself: a group is a maximal non-empty run without ';', a
\* dimension a maximal run of digits.
GroupCount(s) ==
    Cardinality({i \in 1..Len(s) : s[i] # ";" /\ (i = 1 \/ s[i - 1] = ";")})
DimCount(s) ==
    Cardinality({i \in 1..Len(s) : s[i] \in Digits /\ (i = 1 \/ s[i - 1] \notin Digits)})
IsDigit(c) == c \in Digits
DigitsOf(s) == SelectSeq(s, IsDigit)

DigitChar(d) == CASE d = 0 -> "0" [] d = 1 -> "1" [] d = 2 -> "2" [] d = 3 -> "3"
                  [] d = 4 -> "4" [] d = 5 -> "5" [] d = 6 -> "6" [] d = 7 -> "7"
                  [] d = 8 -> "8" [] d = 9 -> "9"
RECURSIVE Decimal(_)
Decimal(n) == IF n < 10 THEN <<DigitChar(n)>>
              ELSE Decimal(n \div 10) \o <<DigitChar(n % 10)>>
RECURSIVE DecimalAll(_)
DecimalAll(dims) == IF dims = <<>> THEN <<>>
                    ELSE Decimal(Head(dims)) \o DecimalAll(Tail(dims))

IsRoundStage(stage) == stage \in {"propagate", "peephole", "constprop"}
RoundStages == SelectSeq(trace, IsRoundStage)
OneRound == <<"propagate", "peephole", "constprop">>

\* C9 as stated: the optimizer never runs more than two rounds and never
\* begins a round after a round that changed nothing.
C9_StopsAtFirstUnchangedRound ==
    /\ Len(rounds) <= 2
    /\ \A i \in 1..Len(rounds) : ~rounds[i] => Len(RoundStages) <= 3 * i

\* C9 as amended: the optimizer applies its rounds of (shape propagation,
\* peephole, constant propagation) in that order and never more than two of
\* them, and the stages after it run only once two full rounds have been
\* completed, whether or not the first round changed anything.
C9_AlwaysTwoRounds ==
    /\ IsPrefix(RoundStages, OneRound \o OneRound)
    /\ Len(rounds) <= 2
    /\ Ran("compile_spec") => (Len(rounds) = 2 /\ RoundStages = OneRound \o OneRound)

C9_Witness ==
    /\ Ran("compile_spec")
    /\ Len(rounds) = 2
    /\ ~rounds[1]

ClaimedOrder ==
    <<"eval", "freeze", "remove_mutation", "dce", "annotate",
      "propagate", "peephole", "constprop", "propagate", "peephole", "constprop",
      "aot_compile", "kernel_id", "serialize", "package">>
IsClaimedStage(stage) == \E i \in 1..Len(ClaimedOrder) : ClaimedOrder[i] = stage

\* C10: the stages of a run execute in the order eval, freeze, mutation
\* removal, dead-code elimination, shape annotation, two rounds of (shape
\* propagation, peephole, constant propagation), kernel compilation,
\* descriptor building, unit serialization, module packaging; and the graph
\* handed to the Kernel Compiler is the module's forward graph after all of
\* the passes, in that order.
C10_StagesInOrder ==
    /\ IsPrefix(SelectSeq(trace, IsClaimedStage), ClaimedOrder)
    /\ Ran("aot_compile") =>
           /\ Len(rounds) = 2
           /\ pgraph[1] = Optimized(module.forward)

C10_Witness ==
    /\ pc = "done"
    /\ pgraph[1] # removeUnusedSelfArgument(module.forward)
    /\ \E i \in 1..2 : rounds[i]

=============================================================================
